---- MODULE Spec2Model ----
(***************************************************************************)
(* Expense ledger of backend/main.py over the SQLite schema of             *)
(* backend/models.py: statement ingestion with exact and fuzzy duplicate   *)
(* detection, manual create/update/delete, neutral keywords, reimbursement *)
(* senders, monthly paid status and the reimbursement matcher.             *)
(*                                                                         *)
(* Text is a sequence of one-character strings, so that strip(), lower()   *)
(* and substring search are computed.  Amounts are integers in thousandths *)
(* of a currency unit (1000 = 1.00), so that rounding to two decimals is   *)
(* computed; NaN is the float a blank spreadsheet cell is read as.  A      *)
(* spreadsheet cell is a record tagged with its kind.  The columns         *)
(* categoria and valuta are stored and never read back by anything         *)
(* modelled here, and are left out.  A                                     *)
(* stored date is the text the code stores: year, month, day and whether   *)
(* month and day are written zero-padded ("2024-03-05") or not             *)
(* ("2024-3-5"); SQLite compares stored dates as text.                     *)
(***************************************************************************)
EXTENDS Integers, Sequences, FiniteSets, TLC

VARIABLES
    expenses,       \* table expenses: set of rows
    nextId,         \* AUTOINCREMENT counter of expenses.id
    keywords,       \* table neutral_keywords: set of rows
    nextKwId,       \* AUTOINCREMENT counter of neutral_keywords.id
    hasMittenti,    \* whether table rimborso_mittenti exists
    mittenti,       \* table rimborso_mittenti: set of rows
    nextMitId,      \* rowid counter of rimborso_mittenti
    monthly,        \* table monthly_status: set of rows
    pending,        \* requests between their duplicate check and their write
    resp            \* what the last completed call returned

vars == <<expenses, nextId, keywords, nextKwId, hasMittenti, mittenti,
          nextMitId, monthly, pending, resp>>

\* float('nan'), which a blank spreadsheet cell is read as: a number outside
\* the amounts of the model, so that a float is always an integer here
NaN == -999999999

\* Bounds: the largest expenses.id handed out, the rows of a statement (but
\* for the statement of ten rows), the requests in flight, the ids of keywords
\* and senders, the characters of an amount text
MaxId == 9
MaxFileLen == 2
MaxPending == 1
MaxKwId == 2
MaxMitId == 2
MaxAmountLen == 5

\* keyword_id NULL: a sender linked to no keyword (ids start at 1)
NoKeyword == 0

\* detect_rimborso: the day of the month's cutoff text, the longest window of
\* months, and the threshold 0.01 on a month's total (in thousandths)
CutoffDay == 28
MaxRun == 4
NetThreshold == 10

\* timedelta(days=2) of check_fuzzy_duplicate
FuzzyDays == 2

\* ------------------------------------------------------------------ text

LowerChar(c) ==
    CASE c = "A" -> "a"
      [] c = "B" -> "b"
      [] c = "C" -> "c"
      [] OTHER -> c

\* str.lower()
Lower(s) == [i \in 1..Len(s) |-> LowerChar(s[i])]

RECURSIVE LStrip(_)
LStrip(s) == IF s # <<>> /\ Head(s) = " " THEN LStrip(Tail(s)) ELSE s

RECURSIVE RStrip(_)
RStrip(s) ==
    IF s # <<>> /\ s[Len(s)] = " " THEN RStrip(SubSeq(s, 1, Len(s) - 1)) ELSE s

\* str.strip()
Strip(s) == RStrip(LStrip(s))

\* SQL: LOWER(TRIM(operazione))
LowerTrim(s) == Lower(Strip(s))

\* SQL: text LIKE '%' || p || '%'
Contains(s, p) ==
    \E i \in 1..(Len(s) + 1) :
        /\ i + Len(p) - 1 <= Len(s)
        /\ SubSeq(s, i, i + Len(p) - 1) = p

\* ----------------------------------------------------------------- dates

IsLeap(y) == (y % 4 = 0 /\ y % 100 # 0) \/ y % 400 = 0

DaysIn(y, m) ==
    IF m = 2 THEN (IF IsLeap(y) THEN 29 ELSE 28)
    ELSE IF m \in {4, 6, 9, 11} THEN 30 ELSE 31

NextDay(t) ==
    IF t.d < DaysIn(t.y, t.m) THEN [t EXCEPT !.d = t.d + 1]
    ELSE IF t.m < 12 THEN [t EXCEPT !.m = t.m + 1, !.d = 1]
    ELSE [t EXCEPT !.y = t.y + 1, !.m = 1, !.d = 1]

PrevDay(t) ==
    IF t.d > 1 THEN [t EXCEPT !.d = t.d - 1]
    ELSE IF t.m > 1 THEN [t EXCEPT !.m = t.m - 1, !.d = DaysIn(t.y, t.m - 1)]
    ELSE [t EXCEPT !.y = t.y - 1, !.m = 12, !.d = 31]

\* datetime +/- timedelta(days = k)
RECURSIVE AddDays(_, _)
AddDays(t, k) ==
    IF k = 0 THEN t
    ELSE IF k > 0 THEN AddDays(NextDay(t), k - 1)
    ELSE AddDays(PrevDay(t), k + 1)

\* strftime('%Y-%m-%d'): the zero-padded text of a date
Fmt(y, m, d) == [y |-> y, m |-> m, d |-> d, pad |-> TRUE]

\* The characters of a date text, coded so that comparing the codes compares
\* the texts: '-' is 0 and the digit k is k + 1 (a year is four digits).
Num2(n, pad) ==
    IF pad \/ n >= 10 THEN <<(n \div 10) + 1, (n % 10) + 1>> ELSE <<n + 1>>

DateChars(t) == <<t.y>> \o <<0>> \o Num2(t.m, t.pad) \o <<0>> \o Num2(t.d, t.pad)

RECURSIVE SeqLess(_, _)
SeqLess(a, b) ==
    IF b = <<>> THEN FALSE
    ELSE IF a = <<>> THEN TRUE
    ELSE IF Head(a) # Head(b) THEN Head(a) < Head(b)
    ELSE SeqLess(Tail(a), Tail(b))

\* SQL and Python comparison of two date texts
TextLess(s, t) == SeqLess(DateChars(s), DateChars(t))
TextLeq(s, t) == DateChars(s) = DateChars(t) \/ TextLess(s, t)

\* datetime.strptime(text, '%Y-%m-%d') succeeds on every calendar date, with
\* or without zero padding of month and day
StrptimeOk(t) == t.m \in 1..12 /\ t.d \in 1..DaysIn(t.y, t.m)

\* SQLite CAST(strftime('%Y' / '%m', text) AS INTEGER): NULL unless the text
\* is YYYY-MM-DD
SqlYearMonth(t) ==
    IF t.pad \/ (t.m >= 10 /\ t.d >= 10)
        THEN [null |-> FALSE, year |-> t.y, month |-> t.m]
        ELSE [null |-> TRUE, year |-> 0, month |-> 0]

\* --------------------------------------------------------------- amounts

Abs(x) == IF x < 0 THEN -x ELSE x

\* round(x, 2) and format(x, '.2f') on thousandths: the nearest hundredth.
\* A tie (5 thousandths) depends on the binary float and is taken to the even
\* hundredth here; no amount of the input sets below ends in 5 thousandths
Round2(x) ==
    LET a == Abs(x)
        q == a \div 10
        r == a % 10
        n == IF r > 5 \/ (r = 5 /\ q % 2 = 1) THEN q + 1 ELSE q
    IN  IF x < 0 THEN -(n * 10) ELSE n * 10

\* ---------------------------------------------------------- parse_importo

Digits == {"0", "1", "2", "3", "4", "5", "6", "7", "8", "9"}

DigitVal(c) ==
    CASE c = "0" -> 0 [] c = "1" -> 1 [] c = "2" -> 2 [] c = "3" -> 3
      [] c = "4" -> 4 [] c = "5" -> 5 [] c = "6" -> 6 [] c = "7" -> 7
      [] c = "8" -> 8 [] c = "9" -> 9

RECURSIVE DigitsVal(_)
DigitsVal(s) ==
    IF s = <<>> THEN 0
    ELSE DigitsVal(SubSeq(s, 1, Len(s) - 1)) * 10 + DigitVal(s[Len(s)])

RECURSIVE Without(_, _)
Without(s, cs) ==
    IF s = <<>> THEN <<>>
    ELSE IF Head(s) \in cs THEN Without(Tail(s), cs)
    ELSE <<Head(s)>> \o Without(Tail(s), cs)

\* str.replace(',', '.')
CommaToDot(s) == [i \in 1..Len(s) |-> IF s[i] = "," THEN "." ELSE s[i]]

Has(s, c) == \E i \in 1..Len(s) : s[i] = c

\* float(s) for a sign, digits and at most one dot, in thousandths (digits
\* after the third decimal are dropped); not ok (ValueError) for other text
ParseFloat(s) ==
    LET neg  == s # <<>> /\ Head(s) = "-"
        body == IF neg THEN Tail(s) ELSE s
        dots == {i \in 1..Len(body) : body[i] = "."}
        wellFormed ==
            /\ \A i \in 1..Len(body) : body[i] \in Digits \cup {"."}
            /\ Cardinality(dots) <= 1
            /\ \E i \in 1..Len(body) : body[i] \in Digits
        p    == IF dots = {} THEN Len(body) + 1 ELSE CHOOSE i \in dots : TRUE
        ip   == SubSeq(body, 1, p - 1)
        fp   == SubSeq(body, p + 1, Len(body))
        f3   == SubSeq(fp \o <<"0", "0", "0">>, 1, 3)
        v    == DigitsVal(ip) * 1000 + DigitsVal(f3)
    IN  IF wellFormed THEN [ok |-> TRUE, v |-> IF neg THEN -v ELSE v]
        ELSE [ok |-> FALSE, v |-> 0]

\* Cells: a number (NaN for a blank cell) or a text
NumCell(v) == [k |-> "num", v |-> v, s |-> <<>>]
TextCell(s) == [k |-> "text", v |-> 0, s |-> s]
BlankCell == NumCell(NaN)

\* str(cell)
StrOf(cell) == IF cell.k = "text" THEN cell.s ELSE <<"n", "a", "n">>

\* A parser that, with both separators, drops the commas and keeps the dot
parse_importo_dot_decimal(value) ==
    IF value.k = "num" THEN value.v
    ELSE
        LET s0 == Without(Strip(value.s), {"euro", "$", "pound", " "})
            s1 == IF Has(s0, ".") /\ Has(s0, ",")
                     THEN Without(s0, {","})
                  ELSE IF Has(s0, ",") THEN CommaToDot(s0)
                  ELSE s0
            f  == ParseFloat(s1)
        IN  IF f.ok THEN f.v ELSE 0

\* parse_importo: a number (or NaN) is returned as it is; a text is parsed
parse_importo(value) ==
    IF value.k = "num" THEN value.v
    ELSE
        LET s0 == Without(Strip(value.s), {"euro", "$", "pound", " "})
            s1 == IF Has(s0, ".") /\ Has(s0, ",")
                     THEN CommaToDot(Without(s0, {"."}))
                  ELSE IF Has(s0, ",") THEN CommaToDot(s0)
                  ELSE s0
            f  == ParseFloat(s1)
        IN  IF f.ok THEN f.v ELSE 0

\* A call of parse_importo on the value at hand: resp keeps the value and
\* what the call returned
ParseImporto ==
    /\ resp.op = "amount"
    /\ resp' = [op |-> "parse", value |-> resp.value,
                result |-> parse_importo(resp.value)]
    /\ UNCHANGED <<expenses, nextId, keywords, nextKwId, hasMittenti, mittenti,
                   nextMitId, monthly, pending>>

\* ------------------------------------------------------------ fingerprint

\* f"{importo:.2f}"
Fmt2(importo) == IF importo = NaN THEN NaN ELSE Round2(importo)

\* generate_hash: SHA-256 of the canonical text, taken to be injective, so
\* the fingerprint is the canonical text itself
generate_hash(data_valuta, importo, operazione, conto_carta) ==
    <<DateChars(data_valuta), Fmt2(importo), LowerTrim(operazione),
      LowerTrim(conto_carta)>>

\* ----------------------------------------------------- neutral classifier

\* get_neutral_keywords
get_neutral_keywords(kws) == {Lower(k.keyword) : k \in kws}

\* A classifier that flags a description containing a keyword
check_neutral_contains(operazione, neutral_kws) ==
    \E k \in neutral_kws : Contains(LowerTrim(operazione), k)

\* check_neutral
check_neutral(operazione, neutral_kws) == LowerTrim(operazione) \in neutral_kws

\* ------------------------------------------------------- duplicate checks

\* SELECT id FROM expenses WHERE hash_id = ?
HashExists(rows, h) == \E e \in rows : e.hash = h

\* SQL: value BETWEEN lo AND hi on date texts
TextBetween(t, lo, hi) == TextLeq(lo, t) /\ TextLeq(t, hi)

\* A fuzzy check whose window is one day wider on each side
check_fuzzy_duplicate_wide(rows, data_valuta, importo, operazione) ==
    \E e \in rows :
        /\ importo # NaN
        /\ e.imp = importo
        /\ LowerTrim(e.op) = Lower(Strip(operazione))
        /\ TextBetween(e.data, AddDays(data_valuta, -(FuzzyDays + 1)),
                       AddDays(data_valuta, FuzzyDays + 1))

\* check_fuzzy_duplicate: same importo and LOWER(TRIM(operazione)) with the
\* stored date text between the texts of target - 2 days and target + 2 days
check_fuzzy_duplicate(rows, data_valuta, importo, operazione) ==
    IF ~StrptimeOk(data_valuta) THEN FALSE
    ELSE
        LET target     == Fmt(data_valuta.y, data_valuta.m, data_valuta.d)
            date_minus == AddDays(target, -FuzzyDays)
            date_plus  == AddDays(target, FuzzyDays)
        IN  \E e \in rows :
                /\ importo # NaN
                /\ e.imp = importo
                /\ LowerTrim(e.op) = Lower(Strip(operazione))
                /\ TextBetween(e.data, date_minus, date_plus)

\* A table whose hash_id column has lost its UNIQUE constraint
ExpenseConstraintsNoUnique(rest, r) == r.imp # NaN

\* The constraints of table expenses on an INSERT or UPDATE of row r, the other
\* rows being rest: importo REAL NOT NULL (a NaN is bound as NULL) and
\* hash_id TEXT UNIQUE
ExpenseConstraintsOk(rest, r) ==
    /\ r.imp # NaN
    /\ ~\E e \in rest : e.hash = r.hash

NewExpense(id, data_valuta, operazione, conto_carta, importo, hash_id, is_neutral) ==
    [id |-> id, data |-> data_valuta, op |-> operazione, conto |-> conto_carta,
     imp |-> importo, excl |-> FALSE, neutral |-> is_neutral, hash |-> hash_id]

\* ---------------------------------------------------------- process_excel

\* The 'Data' cell of a row: blank, a native datetime, a text in one of the
\* four accepted formats, a text in none of them, or a value that is neither
\* text nor datetime
DateFormats == {"d/m/Y", "d-m-Y", "Y-m-d", "d.m.Y"}

DataCell(k, y, m, d) == [k |-> k, y |-> y, m |-> m, d |-> d]

\* A date handling that skips a text in no format as it skips a blank cell
ParseDataSilent(data_raw) ==
    IF data_raw.k = "datetime" \/ (data_raw.k \in DateFormats /\ StrptimeOk(data_raw))
        THEN [st |-> "ok", date |-> Fmt(data_raw.y, data_raw.m, data_raw.d)]
        ELSE [st |-> "skip", date |-> Fmt(0, 0, 0)]

\* The date handling of a row: "skip" for a blank cell, "error" when no format
\* matches, else the date as strftime('%Y-%m-%d') writes it
ParseData(data_raw) ==
    IF data_raw.k = "blank" THEN [st |-> "skip", date |-> Fmt(0, 0, 0)]
    ELSE IF data_raw.k = "datetime"
        THEN [st |-> "ok", date |-> Fmt(data_raw.y, data_raw.m, data_raw.d)]
    ELSE IF data_raw.k \in DateFormats /\ StrptimeOk(data_raw)
        THEN [st |-> "ok", date |-> Fmt(data_raw.y, data_raw.m, data_raw.d)]
    ELSE [st |-> "error", date |-> Fmt(0, 0, 0)]

NoStats == [new |-> 0, duplicates |-> 0, fuzzy_matches |-> <<>>, errors |-> 0]

\* stats["errors"] += 1; continue
RowError(keep) == [keep EXCEPT !.stats.errors = @ + 1]

\* A duplicate that is skipped and not counted
ExactDuplicateUncounted(keep) == keep

\* The fingerprint exists: stats["duplicates"] += 1; continue
ExactDuplicate(keep) == [keep EXCEPT !.stats.duplicates = @ + 1]

\* A fuzzy duplicate that is recorded in fuzzy_matches and not counted
FuzzyDuplicateUncounted(keep, data_valuta, operazione, importo) ==
    [keep EXCEPT
        !.stats.fuzzy_matches =
            Append(@, [data |-> data_valuta, operazione |-> operazione,
                       importo |-> importo])]

\* A fuzzy duplicate: recorded in fuzzy_matches and counted in duplicates
FuzzyDuplicate(keep, data_valuta, operazione, importo) ==
    [keep EXCEPT
        !.stats.fuzzy_matches =
            Append(@, [data |-> data_valuta, operazione |-> operazione,
                       importo |-> importo]),
        !.stats.duplicates = @ + 1]

\* conto_carta of a row: str(cell).strip(), and '' for 'nan'
RowConto(row) ==
    IF Strip(StrOf(row.conto)) = <<"n", "a", "n">> THEN <<>> ELSE Strip(StrOf(row.conto))

\* The values process_excel binds to the INSERT for a row whose date parsed
RowRecord(nid, row, neutral_kws) ==
    LET data_valuta == ParseData(row.data).date
        operazione  == Strip(StrOf(row.op))
        importo     == parse_importo(row.imp)
        conto_carta == RowConto(row)
        hash_id     == generate_hash(data_valuta, importo, operazione, conto_carta)
        is_neutral  == check_neutral(operazione, neutral_kws)
    IN  NewExpense(nid, data_valuta, operazione, conto_carta,
                   importo, hash_id, is_neutral)

\* The INSERT of a row inside the try block: stats["new"] += 1, or the
\* exception handler that counts an error
InsertRow(keep, r) ==
    IF ~ExpenseConstraintsOk(keep.rows, r) THEN RowError(keep)
    ELSE [rows |-> keep.rows \cup {r}, nid |-> keep.nid + 1,
          stats |-> [keep.stats EXCEPT !.new = @ + 1]]

\* One iteration of the loop over the rows: cur is the rows the connection
\* sees (committed and inserted so far), nid the next id, stats the counters
IngestRow(cur, nid, stats, row, neutral_kws) ==
    LET keep        == [rows |-> cur, nid |-> nid, stats |-> stats]
        parsed      == ParseData(row.data)
        data_valuta == parsed.date
        operazione  == Strip(StrOf(row.op))
        importo     == parse_importo(row.imp)
        hash_id     == generate_hash(data_valuta, importo, operazione, RowConto(row))
    IN  IF parsed.st = "skip" THEN keep
        ELSE IF parsed.st = "error" THEN RowError(keep)
        ELSE IF operazione = <<>> \/ operazione = <<"n", "a", "n">> THEN keep
        ELSE IF HashExists(cur, hash_id) THEN ExactDuplicate(keep)
        ELSE IF check_fuzzy_duplicate(cur, data_valuta, importo, operazione)
            THEN FuzzyDuplicate(keep, data_valuta, operazione, importo)
        ELSE InsertRow(keep, RowRecord(nid, row, neutral_kws))

\* The loop of process_excel over the rows of the decoded table
RECURSIVE IngestLoop(_, _, _, _, _)
IngestLoop(cur, nid, stats, file, neutral_kws) ==
    IF file = <<>> THEN [rows |-> cur, nid |-> nid, stats |-> stats]
    ELSE LET one == IngestRow(cur, nid, stats, Head(file), neutral_kws)
         IN  IngestLoop(one.rows, one.nid, one.stats, Tail(file), neutral_kws)

\* process_excel / upload_file: the keywords are read once, the rows are
\* processed in order, one commit ends the call, the statistics are returned
ProcessExcel(file) ==
    /\ LET out == IngestLoop(expenses, nextId, NoStats, file,
                             get_neutral_keywords(keywords))
       IN  /\ out.nid - 1 <= MaxId
           /\ expenses' = out.rows
           /\ nextId' = out.nid
           /\ resp' = [op |-> "upload", code |-> 200, file |-> file,
                       stats |-> out.stats]
    /\ UNCHANGED <<keywords, nextKwId, hasMittenti, mittenti, nextMitId,
                   monthly, pending>>

\* ------------------------------------------------- manual create / update

\* An empty 'data_valuta' field
NoDate == [y |-> 0, m |-> 0, d |-> 0, pad |-> TRUE]

Body(data, op, conto, imp) == [data |-> data, op |-> op, conto |-> conto, imp |-> imp]

\* The validation of create_expense and update_expense: both fields present
\* and the date accepted by strptime('%Y-%m-%d')
BodyValid(body) ==
    /\ body.data # NoDate
    /\ Strip(body.op) # <<>>
    /\ StrptimeOk(body.data)

BodyHash(body) ==
    generate_hash(body.data, parse_importo(body.imp), Strip(body.op), Strip(body.conto))

Reply(op, code) == [op |-> op, code |-> code]

\* INSERT INTO expenses of create_expense, with the keywords read just before
CreateRow(id, body, kws) ==
    NewExpense(id, body.data, Strip(body.op), Strip(body.conto),
               parse_importo(body.imp), BodyHash(body),
               check_neutral(Strip(body.op), get_neutral_keywords(kws)))

\* The write of create_expense: the INSERT and the commit, or the exception
\* handler when a constraint of the table fails
CreateWrite(body) ==
    LET r == CreateRow(nextId, body, keywords)
    IN  IF ExpenseConstraintsOk(expenses, r)
            THEN /\ expenses' = expenses \cup {r}
                 /\ nextId' = nextId + 1
                 /\ resp' = [op |-> "create", code |-> 200, row |-> r]
            ELSE /\ resp' = Reply("create", 500)
                 /\ UNCHANGED <<expenses, nextId>>

\* create_expense, run without interruption
CreateExpense(body) ==
    /\ nextId <= MaxId
    /\ IF ~BodyValid(body)
           THEN resp' = Reply("create", 400) /\ UNCHANGED <<expenses, nextId>>
       ELSE IF HashExists(expenses, BodyHash(body))
           THEN resp' = Reply("create", 409) /\ UNCHANGED <<expenses, nextId>>
       ELSE CreateWrite(body)
    /\ UNCHANGED <<keywords, nextKwId, hasMittenti, mittenti, nextMitId,
                   monthly, pending>>

\* UPDATE expenses ... WHERE id = ? of update_expense
UpdateRow(old, body, kws) ==
    [old EXCEPT !.data = body.data,
                !.op = Strip(body.op),
                !.conto = Strip(body.conto),
                !.imp = parse_importo(body.imp),
                !.hash = BodyHash(body),
                !.neutral = check_neutral(Strip(body.op), get_neutral_keywords(kws))]

\* The write of update_expense: the UPDATE, the commit and the read back of
\* the row, or the exception handler (a failed constraint, or no row to read
\* back)
UpdateWrite(expense_id, body) ==
    LET olds == {e \in expenses : e.id = expense_id}
    IN  IF olds = {} THEN resp' = Reply("update", 500) /\ UNCHANGED expenses
        ELSE LET old == CHOOSE e \in olds : TRUE
                 r   == UpdateRow(old, body, keywords)
             IN  IF ExpenseConstraintsOk(expenses \ {old}, r)
                     THEN /\ expenses' = (expenses \ {old}) \cup {r}
                          /\ resp' = [op |-> "update", code |-> 200, row |-> r]
                     ELSE /\ resp' = Reply("update", 500)
                          /\ UNCHANGED expenses

\* A collision query without the condition on the id
HashCollisionAny(rows, h, expense_id) == \E e \in rows : e.hash = h

\* SELECT id FROM expenses WHERE hash_id = ? AND id != ?
HashCollision(rows, h, expense_id) == \E e \in rows : e.hash = h /\ e.id # expense_id

\* update_expense, run without interruption
UpdateExpense(expense_id, body) ==
    /\ IF ~BodyValid(body)
           THEN resp' = Reply("update", 400) /\ UNCHANGED expenses
       ELSE IF ~\E e \in expenses : e.id = expense_id
           THEN resp' = Reply("update", 404) /\ UNCHANGED expenses
       ELSE IF HashCollision(expenses, BodyHash(body), expense_id)
           THEN resp' = Reply("update", 409) /\ UNCHANGED expenses
       ELSE UpdateWrite(expense_id, body)
    /\ UNCHANGED <<nextId, keywords, nextKwId, hasMittenti, mittenti, nextMitId,
                   monthly, pending>>

\* ------------------------------------------ concurrent create and update

\* Requests are served by handlers that check and then write; between the
\* two another worker on the same database file may commit.  'pending' holds
\* the requests that have passed their check and have not written yet.
NoBody == [data |-> [y |-> 0, m |-> 0, d |-> 0, pad |-> TRUE], op |-> <<>>,
           conto |-> <<>>, imp |-> NumCell(NaN)]
NoRow == [data |-> [k |-> "blank", y |-> 0, m |-> 0, d |-> 0], op |-> NumCell(NaN),
          conto |-> NumCell(NaN), imp |-> NumCell(NaN)]

\* create_expense up to its duplicate check: a request that passes it is
\* about to INSERT
CreateCheck(body) ==
    /\ Cardinality(pending) < MaxPending
    /\ BodyValid(body)
    /\ ~HashExists(expenses, BodyHash(body))
    /\ pending' = pending \cup {[op |-> "create", id |-> 0, body |-> body,
                                  row |-> NoRow]}
    /\ UNCHANGED <<expenses, nextId, keywords, nextKwId, hasMittenti, mittenti,
                   nextMitId, monthly, resp>>

\* update_expense up to its collision check
UpdateCheck(expense_id, body) ==
    /\ Cardinality(pending) < MaxPending
    /\ BodyValid(body)
    /\ \E e \in expenses : e.id = expense_id
    /\ ~HashCollision(expenses, BodyHash(body), expense_id)
    /\ pending' = pending \cup {[op |-> "update", id |-> expense_id, body |-> body,
                                  row |-> NoRow]}
    /\ UNCHANGED <<expenses, nextId, keywords, nextKwId, hasMittenti, mittenti,
                   nextMitId, monthly, resp>>

\* process_excel on a statement of one row, up to the two duplicate checks of
\* that row
UploadCheck(row) ==
    LET r == RowRecord(nextId, row, get_neutral_keywords(keywords))
    IN  /\ Cardinality(pending) < MaxPending
        /\ ParseData(row.data).st = "ok"
        /\ r.op # <<>> /\ r.op # <<"n", "a", "n">>
        /\ ~HashExists(expenses, r.hash)
        /\ ~check_fuzzy_duplicate(expenses, r.data, r.imp, r.op)
        /\ pending' = pending \cup {[op |-> "upload", id |-> 0, body |-> NoBody,
                                      row |-> row]}
        /\ UNCHANGED <<expenses, nextId, keywords, nextKwId, hasMittenti, mittenti,
                       nextMitId, monthly, resp>>

\* The INSERT and the commit of a one-row statement that has passed its checks
UploadWrite(row) ==
    LET keep == [rows |-> expenses, nid |-> nextId, stats |-> NoStats]
        out  == InsertRow(keep, RowRecord(nextId, row, get_neutral_keywords(keywords)))
    IN  /\ expenses' = out.rows
        /\ nextId' = out.nid
        /\ resp' = [op |-> "upload", code |-> 200, file |-> <<row>>,
                    stats |-> out.stats]

\* The rest of a request that has passed its check
PendingWrite(p) ==
    /\ p \in pending
    /\ pending' = pending \ {p}
    /\ IF p.op = "create" THEN nextId <= MaxId /\ CreateWrite(p.body)
       ELSE IF p.op = "upload" THEN nextId <= MaxId /\ UploadWrite(p.row)
       ELSE UpdateWrite(p.id, p.body) /\ UNCHANGED nextId
    /\ UNCHANGED <<keywords, nextKwId, hasMittenti, mittenti, nextMitId, monthly>>

\* ------------------------------------------------- toggle, delete, status

\* toggle_expense
ToggleExpense(expense_id) ==
    /\ IF \E e \in expenses : e.id = expense_id
           THEN /\ expenses' = {IF e.id = expense_id
                                   THEN [e EXCEPT !.excl = ~e.excl] ELSE e
                                : e \in expenses}
                /\ resp' = Reply("toggle", 200)
           ELSE resp' = Reply("toggle", 404) /\ UNCHANGED expenses
    /\ UNCHANGED <<nextId, keywords, nextKwId, hasMittenti, mittenti, nextMitId,
                   monthly, pending>>

\* delete_expense
DeleteExpense(expense_id) ==
    /\ IF \E e \in expenses : e.id = expense_id
           THEN /\ expenses' = {e \in expenses : e.id # expense_id}
                /\ resp' = Reply("delete", 200)
           ELSE resp' = Reply("delete", 404) /\ UNCHANGED expenses
    /\ UNCHANGED <<nextId, keywords, nextKwId, hasMittenti, mittenti, nextMitId,
                   monthly, pending>>

\* set_monthly_status: INSERT ... ON CONFLICT(month, year) DO UPDATE
SetMonthlyStatus(month, year, is_paid) ==
    /\ monthly' = {s \in monthly : ~(s.month = month /\ s.year = year)}
                    \cup {[month |-> month, year |-> year, is_paid |-> is_paid]}
    /\ resp' = Reply("status", 200)
    /\ UNCHANGED <<expenses, nextId, keywords, nextKwId, hasMittenti, mittenti,
                   nextMitId, pending>>

\* The texts f"{y}-{m:02d}-01" and the first day of the next month
MonthStart(y, m) == Fmt(y, m, 1)
MonthEnd(y, m) == IF m = 12 THEN Fmt(y + 1, 1, 1) ELSE Fmt(y, m + 1, 1)

\* WHERE data_valuta >= start AND data_valuta < end, on texts
InPeriodText(t, y, m) == TextLeq(MonthStart(y, m), t) /\ TextLess(t, MonthEnd(y, m))

\* bulk_delete_expenses: for each period the expenses in it and its status
\* row are deleted; one commit ends the call
RECURSIVE BulkLoop(_, _, _, _)
BulkLoop(rows, status, deleted, periods) ==
    IF periods = <<>> THEN [rows |-> rows, status |-> status, deleted |-> deleted]
    ELSE LET p    == Head(periods)
             gone == {e \in rows : InPeriodText(e.data, p.year, p.month)}
         IN  BulkLoop(rows \ gone,
                      {s \in status : ~(s.month = p.month /\ s.year = p.year)},
                      deleted + Cardinality(gone), Tail(periods))

BulkDeleteExpenses(periods) ==
    /\ IF periods = <<>>
           THEN resp' = Reply("bulk", 400) /\ UNCHANGED <<expenses, monthly>>
           ELSE LET out == BulkLoop(expenses, monthly, 0, periods)
                IN  /\ expenses' = out.rows
                    /\ monthly' = out.status
                    /\ resp' = [op |-> "bulk", code |-> 200, periods |-> periods,
                                deleted |-> out.deleted]
    /\ UNCHANGED <<nextId, keywords, nextKwId, hasMittenti, mittenti, nextMitId,
                   pending>>

\* ------------------------------------------------------- neutral keywords

\* UPDATE expenses SET is_neutral = flag WHERE LOWER(TRIM(operazione)) = text
Reflag(rows, text, flag) ==
    {IF LowerTrim(e.op) = text THEN [e EXCEPT !.neutral = flag] ELSE e : e \in rows}

\* keyword TEXT UNIQUE: uniqueness of the text as stored
KeywordUniqueOk(kws, keyword) == ~\E k \in kws : k.keyword = keyword

\* add_keyword: the INSERT, the re-flagging of the matching expenses and the
\* commit; an exception (the UNIQUE constraint) answers 409 and nothing is
\* committed
AddKeyword(raw) ==
    /\ nextKwId <= MaxKwId
    /\ LET keyword == Strip(raw)
       IN  IF keyword = <<>>
               THEN /\ resp' = Reply("add_keyword", 400)
                    /\ UNCHANGED <<expenses, keywords, nextKwId>>
           ELSE IF ~KeywordUniqueOk(keywords, keyword)
               THEN /\ resp' = Reply("add_keyword", 409)
                    /\ UNCHANGED <<expenses, keywords, nextKwId>>
           ELSE /\ keywords' = keywords \cup {[id |-> nextKwId, keyword |-> keyword]}
                /\ nextKwId' = nextKwId + 1
                /\ expenses' = Reflag(expenses, Lower(keyword), TRUE)
                /\ resp' = [op |-> "add_keyword", code |-> 200, id |-> nextKwId]
    /\ UNCHANGED <<nextId, hasMittenti, mittenti, nextMitId, monthly, pending>>

\* delete_keyword: the keyword is deleted, the matching expenses are
\* un-flagged and the link of a sender to it is severed, then one commit.  The
\* last statement names table rimborso_mittenti: without the table it raises,
\* the commit is never reached and nothing is changed
DeleteKeyword(kw_id) ==
    /\ LET rows == {k \in keywords : k.id = kw_id}
       IN  IF rows = {}
               THEN /\ resp' = Reply("delete_keyword", 404)
                    /\ UNCHANGED <<expenses, keywords, mittenti>>
           ELSE IF hasMittenti = "no"
               THEN /\ resp' = Reply("delete_keyword", 500)
                    /\ UNCHANGED <<expenses, keywords, mittenti>>
           ELSE LET row == CHOOSE k \in rows : TRUE
                IN  /\ keywords' = keywords \ {row}
                    /\ expenses' = Reflag(expenses, Lower(row.keyword), FALSE)
                    /\ mittenti' = {IF m.keyword_id = kw_id
                                       THEN [m EXCEPT !.keyword_id = NoKeyword] ELSE m
                                    : m \in mittenti}
                    /\ resp' = Reply("delete_keyword", 200)
    /\ UNCHANGED <<nextId, nextKwId, hasMittenti, nextMitId, monthly, pending>>

\* ------------------------------------------------- reimbursement senders

\* The creation of table rimborso_mittenti (id, operazione, keyword_id,
\* tolleranza, attivo), which init_db does not create; whether the table
\* declares operazione UNIQUE is not known, and both are possible
CreateMittentiTable(unique) ==
    /\ hasMittenti = "no"
    /\ hasMittenti' = IF unique THEN "unique" ELSE "plain"
    /\ resp' = Reply("create_table", 200)
    /\ UNCHANGED <<expenses, nextId, keywords, nextKwId, mittenti, nextMitId,
                   monthly, pending>>

\* add_rimborso_mittente: the keyword whose lower-cased text equals the
\* lower-cased operazione is linked (any one of them when several match), or a
\* keyword is created and the matching expenses flagged; then the sender is
\* inserted and all is committed.  An exception (no such table, a constraint)
\* answers 409 with nothing committed
AddRimborsoMittente(raw, tolleranza, attivo) ==
    /\ nextKwId <= MaxKwId
    /\ nextMitId <= MaxMitId
    /\ LET operazione == Strip(raw)
           matching   == {k \in keywords : Lower(k.keyword) = Lower(operazione)}
       IN  IF operazione = <<>>
               THEN /\ resp' = Reply("add_mittente", 400)
                    /\ UNCHANGED <<expenses, keywords, nextKwId, mittenti, nextMitId>>
           ELSE IF \/ hasMittenti = "no"
                   \/ /\ hasMittenti = "unique"
                      /\ \E m \in mittenti : m.operazione = operazione
               THEN /\ resp' = Reply("add_mittente", 409)
                    /\ UNCHANGED <<expenses, keywords, nextKwId, mittenti, nextMitId>>
           ELSE IF matching # {}
               THEN \E existing_kw \in matching :
                    /\ mittenti' = mittenti \cup
                           {[id |-> nextMitId, operazione |-> operazione,
                             keyword_id |-> existing_kw.id,
                             tolleranza |-> tolleranza, attivo |-> attivo]}
                    /\ nextMitId' = nextMitId + 1
                    /\ resp' = [op |-> "add_mittente", code |-> 200, id |-> nextMitId]
                    /\ UNCHANGED <<expenses, keywords, nextKwId>>
           ELSE /\ keywords' = keywords \cup {[id |-> nextKwId, keyword |-> operazione]}
                /\ nextKwId' = nextKwId + 1
                /\ expenses' = Reflag(expenses, Lower(operazione), TRUE)
                /\ mittenti' = mittenti \cup
                       {[id |-> nextMitId, operazione |-> operazione,
                         keyword_id |-> nextKwId,
                         tolleranza |-> tolleranza, attivo |-> attivo]}
                /\ nextMitId' = nextMitId + 1
                /\ resp' = [op |-> "add_mittente", code |-> 200, id |-> nextMitId]
    /\ UNCHANGED <<nextId, hasMittenti, monthly, pending>>

\* update_rimborso_mittente: tolleranza and attivo of an existing sender
UpdateRimborsoMittente(mid, tolleranza, attivo) ==
    /\ IF hasMittenti = "no"
           THEN resp' = Reply("update_mittente", 500) /\ UNCHANGED mittenti
       ELSE IF ~\E m \in mittenti : m.id = mid
           THEN resp' = Reply("update_mittente", 404) /\ UNCHANGED mittenti
       ELSE /\ mittenti' = {IF m.id = mid
                               THEN [m EXCEPT !.tolleranza = tolleranza,
                                              !.attivo = attivo]
                               ELSE m : m \in mittenti}
            /\ resp' = Reply("update_mittente", 200)
    /\ UNCHANGED <<expenses, nextId, keywords, nextKwId, hasMittenti, nextMitId,
                   monthly, pending>>

\* delete_rimborso_mittente: the sender, its linked keyword, and the neutral
\* flag of the expenses whose text equals the sender's
DeleteRimborsoMittente(mid) ==
    /\ IF hasMittenti = "no"
           THEN /\ resp' = Reply("delete_mittente", 500)
                /\ UNCHANGED <<expenses, keywords, mittenti>>
       ELSE IF ~\E m \in mittenti : m.id = mid
           THEN /\ resp' = Reply("delete_mittente", 404)
                /\ UNCHANGED <<expenses, keywords, mittenti>>
       ELSE LET row == CHOOSE m \in mittenti : m.id = mid
            IN  /\ mittenti' = mittenti \ {row}
                /\ IF row.keyword_id # NoKeyword
                       THEN /\ keywords' = {k \in keywords : k.id # row.keyword_id}
                            /\ expenses' = Reflag(expenses, Lower(row.operazione), FALSE)
                       ELSE UNCHANGED <<expenses, keywords>>
                /\ resp' = Reply("delete_mittente", 200)
    /\ UNCHANGED <<nextId, nextKwId, hasMittenti, nextMitId, monthly, pending>>

\* -------------------------------------------------------- detect_rimborso

Min(a, b) == IF a < b THEN a ELSE b

MonthBefore(a, b) == a.year < b.year \/ (a.year = b.year /\ a.month < b.month)

\* Months by (year, month)
RECURSIVE SortMonths(_)
SortMonths(S) ==
    IF S = {} THEN <<>>
    ELSE LET first == CHOOSE x \in S : \A z \in S \ {x} : MonthBefore(x, z)
         IN  <<first>> \o SortMonths(S \ {first})

\* Rows by id
RECURSIVE SortById(_)
SortById(S) ==
    IF S = {} THEN <<>>
    ELSE LET first == CHOOSE x \in S : \A z \in S \ {x} : x.id < z.id
         IN  <<first>> \o SortById(S \ {first})

\* ORDER BY data_valuta DESC on the date texts (rows of one date by id)
TxBefore(a, b) ==
    \/ TextLess(b.data, a.data)
    \/ (DateChars(a.data) = DateChars(b.data) /\ a.id < b.id)

RECURSIVE SortTx(_)
SortTx(S) ==
    IF S = {} THEN <<>>
    ELSE LET first == CHOOSE x \in S : \A z \in S \ {x} : TxBefore(x, z)
         IN  <<first>> \o SortTx(S \ {first})

RECURSIVE SumImporto(_)
SumImporto(rows) ==
    IF rows = {} THEN 0
    ELSE LET e == CHOOSE x \in rows : TRUE IN e.imp + SumImporto(rows \ {e})

RECURSIVE SumAmount(_)
SumAmount(months) ==
    IF months = <<>> THEN 0 ELSE Head(months).amount + SumAmount(Tail(months))

\* SELECT operazione, tolleranza FROM rimborso_mittenti WHERE attivo = 1, in
\* the order of the ids
ActiveMittenti(mits) == SortById({m \in mits : m.attivo})

\* A matcher that does not read the paid months
PaidKeysNone(status) == {}

\* SELECT year, month FROM monthly_status WHERE is_paid = 1
PaidKeys(status) == {<<s.year, s.month>> : s \in {x \in status : x.is_paid}}

\* SELECT DISTINCT year, month of the expenses WHERE is_neutral = 0
ExpenseMonths(rows) == {SqlYearMonth(e.data) : e \in {x \in rows : ~x.neutral}}

\* SUM(importo) of the month: the expenses whose date text is in
\* [y-mm-01, first of the next month), not excluded, not neutral
MonthTotal(rows, y, m) ==
    SumImporto({e \in rows : InPeriodText(e.data, y, m) /\ ~e.excl /\ ~e.neutral})

\* The list 'unpaid': the months of the non-neutral expenses that are not
\* paid and whose total exceeds 0.01 in absolute value, by year and month,
\* each with its total rounded to two decimals
Unpaid(rows, status) ==
    LET ms == {[year |-> r.year, month |-> r.month,
                amount |-> Round2(MonthTotal(rows, r.year, r.month))] :
                r \in {x \in ExpenseMonths(rows) :
                          /\ <<x.year, x.month>> \notin PaidKeys(status)
                          /\ Abs(MonthTotal(rows, x.year, x.month)) > NetThreshold}}
    IN  SortMonths(ms)

\* The transfers of a sender: importo > 0 and the pattern inside the
\* lower-cased text, ORDER BY data_valuta DESC (rows of one date by id)
Transfers(rows, pattern) ==
    SortTx({e \in rows : Contains(LowerTrim(e.op), Lower(pattern)) /\ e.imp > 0})

\* [m for m in unpaid if f"{year}-{month:02d}-28" < tx_date]
Eligible(unpaid, tx_date) ==
    SelectSeq(unpaid, LAMBDA m : TextLess(Fmt(m.year, m.month, CutoffDay), tx_date))

NoBest == [found |-> FALSE, transaction |-> 0, months |-> <<>>,
           months_total |-> 0, diff |-> 0]

\* An inner loop body whose comparison with the diff kept in best is reversed
ConsiderReversed(eligible_sorted, tx, tolleranza, start_idx, end_idx, best) ==
    LET combo      == SubSeq(eligible_sorted, start_idx, end_idx)
        cumulative == SumAmount(combo)
        diff       == Abs(Abs(cumulative) - tx.imp)
    IN  IF diff <= tolleranza /\ (~best.found \/ diff > best.diff)
            THEN [found |-> TRUE, transaction |-> tx.id, months |-> combo,
                  months_total |-> Round2(cumulative), diff |-> Round2(diff)]
            ELSE best

\* The body of the inner loop: the window start_idx..end_idx replaces best
\* when its diff is within the tolerance and below the diff kept in best
Consider(eligible_sorted, tx, tolleranza, start_idx, end_idx, best) ==
    LET combo      == SubSeq(eligible_sorted, start_idx, end_idx)
        cumulative == SumAmount(combo)
        diff       == Abs(Abs(cumulative) - tx.imp)
    IN  IF diff <= tolleranza /\ (~best.found \/ diff < best.diff)
            THEN [found |-> TRUE, transaction |-> tx.id, months |-> combo,
                  months_total |-> Round2(cumulative), diff |-> Round2(diff)]
            ELSE best

RECURSIVE InnerLoop(_, _, _, _, _, _)
InnerLoop(eligible_sorted, tx, tolleranza, start_idx, end_idx, best) ==
    IF end_idx > Min(start_idx + MaxRun - 1, Len(eligible_sorted)) THEN best
    ELSE InnerLoop(eligible_sorted, tx, tolleranza, start_idx, end_idx + 1,
                   Consider(eligible_sorted, tx, tolleranza, start_idx, end_idx, best))

RECURSIVE OuterLoop(_, _, _, _, _)
OuterLoop(eligible_sorted, tx, tolleranza, start_idx, best) ==
    IF start_idx > Len(eligible_sorted) THEN best
    ELSE OuterLoop(eligible_sorted, tx, tolleranza, start_idx + 1,
                   InnerLoop(eligible_sorted, tx, tolleranza, start_idx, start_idx, best))

\* The best window of one transfer
BestMatch(unpaid, tx, tolleranza) ==
    LET eligible        == Eligible(unpaid, tx.data)
        eligible_sorted == SortMonths({eligible[i] : i \in 1..Len(eligible)})
    IN  OuterLoop(eligible_sorted, tx, tolleranza, 1, NoBest)

\* A loop over the transfers that never consults seen_tx_ids
RECURSIVE TxLoopUnseen(_, _, _, _, _)
TxLoopUnseen(txs, unpaid, tolleranza, seen_tx_ids, candidates) ==
    IF txs = <<>> THEN [seen |-> seen_tx_ids, candidates |-> candidates]
    ELSE LET tx   == Head(txs)
             best == BestMatch(unpaid, tx, tolleranza)
         IN  IF ~best.found
                 THEN TxLoopUnseen(Tail(txs), unpaid, tolleranza, seen_tx_ids, candidates)
                 ELSE TxLoopUnseen(Tail(txs), unpaid, tolleranza,
                                   seen_tx_ids \cup {tx.id}, Append(candidates, best))

\* for tx in txs: a transfer already seen is skipped; one with a best window
\* is marked seen and its window appended to the candidates
RECURSIVE TxLoop(_, _, _, _, _)
TxLoop(txs, unpaid, tolleranza, seen_tx_ids, candidates) ==
    IF txs = <<>> THEN [seen |-> seen_tx_ids, candidates |-> candidates]
    ELSE LET tx   == Head(txs)
             best == BestMatch(unpaid, tx, tolleranza)
         IN  IF tx.id \in seen_tx_ids \/ ~best.found
                 THEN TxLoop(Tail(txs), unpaid, tolleranza, seen_tx_ids, candidates)
                 ELSE TxLoop(Tail(txs), unpaid, tolleranza,
                             seen_tx_ids \cup {tx.id}, Append(candidates, best))

\* for mit in mittenti
RECURSIVE MittentiLoop(_, _, _, _, _)
MittentiLoop(mits, rows, unpaid, seen_tx_ids, candidates) ==
    IF mits = <<>> THEN candidates
    ELSE LET mit == Head(mits)
             out == TxLoop(Transfers(rows, mit.operazione), unpaid,
                           mit.tolleranza, seen_tx_ids, candidates)
         IN  MittentiLoop(Tail(mits), rows, unpaid, out.seen, out.candidates)

\* What detect_rimborso answers in the current state: an error when the table
\* of senders does not exist, or when a non-neutral expense has a date text
\* whose year and month SQLite reads as NULL (formatting None raises); else
\* the candidates
DetectResult ==
    IF hasMittenti = "no" THEN [code |-> 500, candidates |-> <<>>]
    ELSE IF ActiveMittenti(mittenti) = <<>> THEN [code |-> 200, candidates |-> <<>>]
    ELSE IF \E r \in ExpenseMonths(expenses) : r.null
        THEN [code |-> 500, candidates |-> <<>>]
    ELSE IF Unpaid(expenses, monthly) = <<>> THEN [code |-> 200, candidates |-> <<>>]
    ELSE [code |-> 200,
          candidates |-> MittentiLoop(ActiveMittenti(mittenti), expenses,
                                      Unpaid(expenses, monthly), {}, <<>>)]

\* A matcher that applies what it finds: the matched months are marked paid
DetectRimborsoApplying ==
    LET matched == UNION {{<<c.months[k].year, c.months[k].month>> :
                              k \in 1..Len(c.months)} :
                          c \in {DetectResult.candidates[i] :
                                     i \in 1..Len(DetectResult.candidates)}}
    IN  /\ resp' = [op |-> "detect", code |-> DetectResult.code,
                    candidates |-> DetectResult.candidates]
        /\ monthly' = {s \in monthly : <<s.year, s.month>> \notin matched}
                        \cup {[month |-> q[2], year |-> q[1], is_paid |-> TRUE] :
                                 q \in matched}
        /\ UNCHANGED <<expenses, nextId, keywords, nextKwId, hasMittenti, mittenti,
                       nextMitId, pending>>

\* detect_rimborso
DetectRimborso ==
    /\ resp' = [op |-> "detect", code |-> DetectResult.code,
                candidates |-> DetectResult.candidates]
    /\ UNCHANGED <<expenses, nextId, keywords, nextKwId, hasMittenti, mittenti,
                   nextMitId, monthly, pending>>

\* ------------------------------------------------------------------ Init

\* The database init_db creates at the first start: the tables expenses,
\* monthly_status and neutral_keywords, empty, and no table rimborso_mittenti
Init ==
    /\ expenses = {}
    /\ nextId = 1
    /\ keywords = {}
    /\ nextKwId = 1
    /\ hasMittenti = "no"
    /\ mittenti = {}
    /\ nextMitId = 1
    /\ monthly = {}
    /\ pending = {}
    /\ resp = Reply("init_db", 200)

\* ------------------------------------------------------------ input sets

Row(data, op, conto, imp) == [data |-> data, op |-> op, conto |-> conto, imp |-> imp]

\* Files of at most n rows over a set of rows
FilesOver(rows, n) == UNION {[1..k -> rows] : k \in 0..n}

Unpadded(y, m, d) == [y |-> y, m |-> m, d |-> d, pad |-> FALSE]

\* Rows of a statement around 2024-02-28: the same operation on the day, one
\* day and three days later (in three of the date formats, with other case,
\* blanks and a textual amount), a text that is no date, a blank date, a blank
\* amount
IngestRows ==
    { Row(DataCell("datetime", 2024, 2, 28), TextCell(<<"a", "b">>),
          BlankCell, NumCell(10000)),
      Row(DataCell("d/m/Y", 2024, 2, 29), TextCell(<<" ", "A", "B">>),
          BlankCell, NumCell(10000)),
      Row(DataCell("Y-m-d", 2024, 3, 2), TextCell(<<"a", "b">>),
          TextCell(<<>>), TextCell(<<"1", "0", ",", "0", "0">>)),
      Row(DataCell("junk", 0, 0, 0), BlankCell, BlankCell, NumCell(10000)),
      Row(DataCell("blank", 0, 0, 0), TextCell(<<"a", "b">>),
          BlankCell, NumCell(10000)),
      Row(DataCell("d.m.Y", 2024, 3, 2), TextCell(<<"a", "b">>),
          BlankCell, BlankCell) }

\* A statement of ten rows, each of its own amount, whose fifth row has a
\* text that is no date
TenFile ==
    [i \in 1..10 |->
        Row(IF i = 5 THEN DataCell("junk", 0, 0, 0)
                     ELSE DataCell("d/m/Y", 2024, 1, 10),
            TextCell(<<"c">>), BlankCell, NumCell(1000 * i))]

\* A statement with a row of every outcome: a new row, a row one day later
\* with the description in other case, the first row again, a text that is no
\* date, a blank date, a dated row with no description, a row three days
\* later, and a dated row with a blank amount
AccountFile ==
    << Row(DataCell("datetime", 2024, 2, 28), TextCell(<<"a", "b">>),
           BlankCell, NumCell(10000)),
       Row(DataCell("d/m/Y", 2024, 2, 29), TextCell(<<" ", "A", "B">>),
           BlankCell, NumCell(10000)),
       Row(DataCell("datetime", 2024, 2, 28), TextCell(<<"a", "b">>),
           BlankCell, NumCell(10000)),
       Row(DataCell("junk", 0, 0, 0), BlankCell, BlankCell, NumCell(10000)),
       Row(DataCell("blank", 0, 0, 0), TextCell(<<"a", "b">>),
           BlankCell, NumCell(10000)),
       Row(DataCell("d-m-Y", 2024, 2, 28), BlankCell, BlankCell, NumCell(10000)),
       Row(DataCell("Y-m-d", 2024, 3, 2), TextCell(<<"a", "b">>),
           TextCell(<<>>), TextCell(<<"1", "0", ",", "0", "0">>)),
       Row(DataCell("d.m.Y", 2024, 3, 2), TextCell(<<"a", "b">>),
           BlankCell, BlankCell) >>

IngestFiles == FilesOver(IngestRows, MaxFileLen) \cup {TenFile, AccountFile}

\* Manual entries beside the statement: the operation of the statement on
\* 2024-02-28, the date written without zero padding, and a request with no
\* date
IngestBodies ==
    { Body(Unpadded(2024, 2, 28), <<"a", "b">>, <<>>, NumCell(10000)),
      Body(NoDate, <<"a", "b">>, <<>>, NumCell(10000)) }

\* Two operations for the ledger: the first as a statement row, as a manual
\* entry, and as a manual entry written in capitals with blanks and with a
\* third decimal (all three of one fingerprint); the second as a statement row
LedgerRows ==
    { Row(DataCell("datetime", 2024, 2, 28), TextCell(<<"a", "b">>),
          BlankCell, NumCell(10000)),
      Row(DataCell("d-m-Y", 2024, 3, 9), TextCell(<<"c">>),
          BlankCell, NumCell(-5000)) }

LedgerBodies ==
    { Body(Fmt(2024, 2, 28), <<"a", "b">>, <<>>, NumCell(10000)),
      Body(Fmt(2024, 2, 28), <<" ", "A", "B">>, <<" ">>,
           TextCell(<<"1", "0", ",", "0", "0", "4">>)) }

LedgerIds == 1..2

\* The month of the second operation
LedgerPeriods == {<<[month |-> 3, year |-> 2024]>>}

\* Uploads, manual entries, edits and deletions; uploads, entries and edits
\* whole or split at their check
Next ==
    \/ \E f \in FilesOver(LedgerRows, MaxFileLen) : ProcessExcel(f)
    \/ \E b \in LedgerBodies : CreateExpense(b)
    \/ \E i \in LedgerIds, b \in LedgerBodies : UpdateExpense(i, b)
    \/ \E r \in LedgerRows : UploadCheck(r)
    \/ \E b \in LedgerBodies : CreateCheck(b)
    \/ \E i \in LedgerIds, b \in LedgerBodies : UpdateCheck(i, b)
    \/ \E p \in pending : PendingWrite(p)
    \/ \E i \in LedgerIds : DeleteExpense(i)
    \/ \E ps \in LedgerPeriods : BulkDeleteExpenses(ps)

Spec == Init /\ [][Next]_vars

\* A statement for the matcher: the spending of December 2023 (with a third
\* decimal), January, February and March 2024, and a transfer of 250.00 on
\* April 10th whose text contains both sender patterns
DetectFile ==
    << Row(DataCell("d/m/Y", 2023, 12, 15), TextCell(<<"a">>), BlankCell, NumCell(-80004)),
       Row(DataCell("d/m/Y", 2024, 1, 15), TextCell(<<"a">>), BlankCell, NumCell(-100000)),
       Row(DataCell("d/m/Y", 2024, 2, 15), TextCell(<<"a">>), BlankCell, NumCell(-150000)),
       Row(DataCell("d/m/Y", 2024, 3, 15), TextCell(<<"a">>), BlankCell, NumCell(-80000)),
       Row(DataCell("d/m/Y", 2024, 4, 10), TextCell(<<"x", "b">>), BlankCell,
           NumCell(250000)) >>

\* Transfers of 80.00 entered by hand: on March 30th, and on March 5th with
\* the date written without zero padding
DetectBodies ==
    { Body(Fmt(2024, 3, 30), <<"b">>, <<>>, NumCell(80000)),
      Body(Unpadded(2024, 3, 5), <<"b">>, <<>>, NumCell(80000)) }

\* Senders: pattern, tolerance, active
DetectSenders ==
    { <<(<<"b">>), 5000, TRUE>>,
      <<(<<"x", "b">>), 100000, TRUE>> }

DetectMonths == {[month |-> 12, year |-> 2023]}

\* The ledger is filled, senders are registered, months are marked and
\* cleared, and the matcher is asked
NextDetect ==
    \/ ProcessExcel(DetectFile)
    \/ \E b \in DetectBodies : CreateExpense(b)
    \/ CreateMittentiTable(FALSE)
    \/ \E sd \in DetectSenders : AddRimborsoMittente(sd[1], sd[2], sd[3])
    \/ \E p \in DetectMonths, is_paid \in BOOLEAN :
          SetMonthlyStatus(p.month, p.year, is_paid)
    \/ BulkDeleteExpenses(<<[month |-> 12, year |-> 2023]>>)
    \/ DetectRimborso

SpecDetect == Init /\ [][NextDetect]_vars

\* Statement uploads and manual entries
NextIngest ==
    \/ \E f \in IngestFiles : ProcessExcel(f)
    \/ \E b \in IngestBodies : CreateExpense(b)

SpecIngest == Init /\ [][NextIngest]_vars

\* ------------------------------------------------ properties of ingestion

\* What a statement row says, read apart from the loop of process_excel
RowDateOk(row) ==
    \/ row.data.k = "datetime"
    \/ row.data.k \in DateFormats /\ StrptimeOk(row.data)
RowDateBad(row) == row.data.k # "blank" /\ ~RowDateOk(row)
RowDate(row) == Fmt(row.data.y, row.data.m, row.data.d)
RowText(row) == Strip(StrOf(row.op))
RowHasText(row) == RowText(row) # <<>> /\ RowText(row) # <<"n", "a", "n">>
RowAmount(row) == parse_importo(row.imp)
RowHash(row) == generate_hash(RowDate(row), RowAmount(row), RowText(row), RowConto(row))

\* A valid row as C3 words it: parseable date, non-empty description
RowValidAsWritten(row) == RowDateOk(row) /\ RowHasText(row)
\* A valid row: one the ingestion can persist, its amount not blank either
RowValid(row) == RowValidAsWritten(row) /\ RowAmount(row) # NaN

NValid(file) == Cardinality({i \in 1..Len(file) : RowValid(file[i])})
NValidAsWritten(file) == Cardinality({i \in 1..Len(file) : RowValidAsWritten(file[i])})

\* A step that is a call of process_excel (every call overwrites resp)
UploadStep == resp'.op = "upload"

\* The days from 2023-01-01 to a date, whatever its text
RECURSIVE DaysBeforeMonth(_, _)
DaysBeforeMonth(y, m) == IF m = 1 THEN 0 ELSE DaysBeforeMonth(y, m - 1) + DaysIn(y, m - 1)
RECURSIVE DaysBeforeYear(_)
DaysBeforeYear(y) ==
    IF y <= 2023 THEN 0 ELSE DaysBeforeYear(y - 1) + (IF IsLeap(y - 1) THEN 366 ELSE 365)
DayNumber(t) == DaysBeforeYear(t.y) + DaysBeforeMonth(t.y, t.m) + t.d

FuzzyOf(data, imp, op, row) ==
    /\ imp = RowAmount(row)
    /\ LowerTrim(op) = LowerTrim(RowText(row))
    /\ TextLeq(AddDays(RowDate(row), -2), data)
    /\ TextLeq(data, AddDays(RowDate(row), 2))

\* Row i of the file has no exact or fuzzy duplicate in the ledger or earlier
\* in the file
RowFresh(rows, file, i) ==
    /\ ~\E e \in rows : e.hash = RowHash(file[i])
    /\ ~\E e \in rows : FuzzyOf(e.data, e.imp, e.op, file[i])
    /\ \A j \in 1..(i - 1) :
          RowValid(file[j])
              => /\ RowHash(file[j]) # RowHash(file[i])
                 /\ ~FuzzyOf(RowDate(file[j]), RowAmount(file[j]),
                             RowText(file[j]), file[i])

C4_FuzzyWindow ==
    [][(/\ UploadStep
        /\ Len(resp'.file) = 1
        /\ RowValid(resp'.file[1])
        /\ ~HashExists(expenses, RowHash(resp'.file[1])))
        => LET row  == resp'.file[1]
               near == \E e \in expenses :
                          /\ e.imp = RowAmount(row)
                          /\ LowerTrim(e.op) = LowerTrim(RowText(row))
                          /\ Abs(DayNumber(e.data) - DayNumber(RowDate(row))) <= 2
           IN  IF near
                   THEN /\ expenses' = expenses
                        /\ resp'.stats.new = 0
                        /\ resp'.stats.duplicates = 1
                        /\ Len(resp'.stats.fuzzy_matches) = 1
                   ELSE /\ resp'.stats.new = 1
                        /\ resp'.stats.duplicates = 0
                        /\ resp'.stats.fuzzy_matches = <<>>
                        /\ Cardinality(expenses') = Cardinality(expenses) + 1]_vars

\* Rows of a file whose date is no date, and valid rows with a blank amount
NBadDate(file) == Cardinality({i \in 1..Len(file) : RowDateBad(file[i])})
NBlankAmount(file) ==
    Cardinality({i \in 1..Len(file) : RowValidAsWritten(file[i]) /\ ~RowValid(file[i])})

\* The file without its rows of unparseable date
GoodDates(file) == SelectSeq(file, LAMBDA row : ~RowDateBad(row))

\* C5: an upload never aborts on a bad row: each row whose date matches no
\* format adds exactly one to errors (the only other errors are the rows with
\* a blank amount) and the other rows are processed as if the bad rows were
\* not in the file: same ledger, same new, same duplicates; the ten-row
\* statement whose fifth row has no date, uploaded when none of its rows is in
\* the ledger, returns errors = 1 and new = 9.
C5_BadRowSkipped ==
    [][UploadStep
        => LET file  == resp'.file
               clean == IngestLoop(expenses, nextId, NoStats, GoodDates(file),
                                   get_neutral_keywords(keywords))
           IN  /\ resp'.stats.errors = NBadDate(file) + NBlankAmount(file)
               /\ expenses' = clean.rows
               /\ resp'.stats.new = clean.stats.new
               /\ resp'.stats.duplicates = clean.stats.duplicates
               /\ (file = TenFile
                   /\ \A i \in 1..Len(file) : ~HashExists(expenses, RowHash(file[i])))
                      => resp'.stats.errors = 1 /\ resp'.stats.new = 9]_vars

\* The ten-row statement uploaded into a ledger with none of its rows
C5_Witness ==
    /\ resp.op = "upload"
    /\ resp.file = TenFile
    /\ resp.stats.errors = 1
    /\ resp.stats.new = 9

\* ----------------------------------------------------------------- C1

\* C1: in every reachable state of the ledger, whatever the sequence and the
\* interleaving of uploads, manual entries, edits, deletions and bulk
\* deletions, no two rows of expenses carry the same hash_id.
C1_HashUnique ==
    \A e1 \in expenses : \A e2 \in expenses : e1.hash = e2.hash => e1 = e2

\* Two requests for one fingerprint both passed their check; the first wrote
\* its row and the second was refused by the table
C1_Witness ==
    /\ resp = Reply("create", 500)
    /\ \E e \in expenses : \E b \in LedgerBodies : e.hash = BodyHash(b)

\* ------------------------------------------------------------ C6 .. C10

\* The last call was detect_rimborso: every call overwrites resp and
\* detect_rimborso writes nothing else, so the tables of such a state are the
\* tables the call has read and resp is its answer
Detected == resp.op = "detect"

\* The transfer a candidate reports
TxOf(c) == CHOOSE e \in expenses : e.id = c.transaction

\* The net total of a calendar month: the sum of the amounts of its expenses
\* that are neither excluded nor neutral
NetTotal(y, m) ==
    SumImporto({e \in expenses : e.data.y = y /\ e.data.m = m /\ ~e.excl /\ ~e.neutral})

\* The chronologically sorted list of the months eligible for a transfer
EligibleSorted(tx) ==
    LET eligible == Eligible(Unpaid(expenses, monthly), tx.data)
    IN  SortMonths({eligible[i] : i \in 1..Len(eligible)})

\* The runs of 1 to 4 months consecutive by position in a list of n months,
\* each as its first and last position
Runs(n) == {q \in (1..n) \X (1..n) : q[1] <= q[2] /\ q[2] - q[1] < 4}

\* The net totals of the months of a list, as they are and rounded to two
\* decimals
NetTotals(el) == [k \in 1..Len(el) |-> NetTotal(el[k].year, el[k].month)]
RoundedNetTotals(el) == [k \in 1..Len(el) |-> Round2(NetTotal(el[k].year, el[k].month))]

RECURSIVE SumRun(_, _, _)
SumRun(totals, from, to) ==
    IF from > to THEN 0 ELSE totals[from] + SumRun(totals, from + 1, to)

\* diff = | |sum of the run's totals| - transfer amount |
DiffOf(totals, q, tx) == Abs(Abs(SumRun(totals, q[1], q[2])) - tx.imp)

\* The active senders whose pattern the description of a transfer contains
SendersOf(tx) ==
    {m \in mittenti : m.attivo /\ Contains(LowerTrim(tx.op), Lower(m.operazione))}

MonthRec(y, m, amount) == [year |-> y, month |-> m, amount |-> amount]

\* The example of C6: the eligible months of a transfer of 250.00 are January
\* -100.00, February -150.00 and March -80.00, and an active sender of
\* tolerance 5.00 matches the transfer; then the answer reports the transfer
\* with the run {January, February} and diff 0
ExampleRun ==
    \A tx \in expenses :
        (/\ resp.code = 200
         /\ tx.imp = 250000
         /\ \E m \in SendersOf(tx) : m.tolleranza = 5000
         /\ EligibleSorted(tx) = <<MonthRec(2024, 1, -100000), MonthRec(2024, 2, -150000),
                                   MonthRec(2024, 3, -80000)>>)
        => \E i \in 1..Len(resp.candidates) :
              /\ resp.candidates[i].transaction = tx.id
              /\ resp.candidates[i].months =
                     <<MonthRec(2024, 1, -100000), MonthRec(2024, 2, -150000)>>
              /\ resp.candidates[i].diff = 0

C7_CutoffBeforeTransfer ==
    Detected =>
        \A i \in 1..Len(resp.candidates) :
            LET c  == resp.candidates[i]
                tx == TxOf(c)
            IN  \A k \in 1..Len(c.months) :
                    DayNumber([y |-> c.months[k].year, m |-> c.months[k].month, d |-> 28])
                        < DayNumber(tx.data)

\* C8: every month matched to a transfer is a calendar month strictly earlier
\* than the month of the transfer's date.  Violated.
C8_EarlierMonthsOnly ==
    Detected =>
        \A i \in 1..Len(resp.candidates) :
            LET c  == resp.candidates[i]
                tx == TxOf(c)
            IN  \A k \in 1..Len(c.months) :
                    MonthBefore(c.months[k], [year |-> tx.data.y, month |-> tx.data.m])

\* C9: in one answer of detect_rimborso no transfer is reported by two
\* candidates, however many active senders match it.
C9_OneCandidatePerTransfer ==
    Detected =>
        \A i \in 1..Len(resp.candidates) : \A j \in 1..Len(resp.candidates) :
            resp.candidates[i].transaction = resp.candidates[j].transaction
                => i = j

\* Two active senders match one transfer and the answer reports it once
C9_Witness ==
    /\ resp.op = "detect"
    /\ \E tx \in expenses :
        /\ Cardinality(SendersOf(tx)) >= 2
        /\ Cardinality({i \in 1..Len(resp.candidates) :
                            resp.candidates[i].transaction = tx.id}) = 1

\* C10: whenever detect_rimborso answers, no matched month is marked paid in
\* monthly_status (a month is marked by set_monthly_status and stays so until
\* it is set unpaid or a bulk delete clears its row), and every matched month
\* has a net total above 0.01 in absolute value.
C10_PaidMonthsNotMatched ==
    Detected =>
        \A i \in 1..Len(resp.candidates) :
            \A k \in 1..Len(resp.candidates[i].months) :
                LET mo == resp.candidates[i].months[k]
                IN  /\ ~\E s \in monthly :
                          s.year = mo.year /\ s.month = mo.month /\ s.is_paid
                    /\ Abs(NetTotal(mo.year, mo.month)) > 10

\* December is marked paid, its spending would fit a transfer of 80.00, and
\* the answer matches that transfer to another month
C10_Witness ==
    /\ resp.op = "detect"
    /\ \E s \in monthly : s.year = 2023 /\ s.month = 12 /\ s.is_paid
    /\ \E tx \in expenses :
        /\ tx.imp = Abs(Round2(NetTotal(2023, 12)))
        /\ \E i \in 1..Len(resp.candidates) :
              /\ resp.candidates[i].transaction = tx.id
              /\ \A k \in 1..Len(resp.candidates[i].months) :
                    resp.candidates[i].months[k].year = 2024

\* ---------------------------------------------------------- C11 .. C12

\* C11: detect_rimborso is read-only: a call leaves the expenses, the monthly
\* status (so no matched month becomes paid), the neutral keywords and the
\* senders as they were.
C11_DetectReadOnly ==
    [][resp'.op = "detect"
        => UNCHANGED <<expenses, monthly, keywords, mittenti>>]_vars

\* The matcher has reported a candidate and none of its months is marked paid
C11_Witness ==
    /\ resp.op = "detect" /\ resp.code = 200
    /\ resp.candidates # <<>>
    /\ \A i \in 1..Len(resp.candidates) :
          \A k \in 1..Len(resp.candidates[i].months) :
              ~\E s \in monthly :
                  /\ s.year = resp.candidates[i].months[k].year
                  /\ s.month = resp.candidates[i].months[k].month
                  /\ s.is_paid

\* No sender is active
NoActiveSender == ~\E m \in mittenti : m.attivo

\* No month of the ledger is unpaid with a net total other than zero
NoUnpaidMonth ==
    ~\E e \in expenses :
        /\ ~\E s \in monthly : s.year = e.data.y /\ s.month = e.data.m /\ s.is_paid
        /\ NetTotal(e.data.y, e.data.m) # 0

\* C12: when no sender is active, or no month is unpaid with a non-zero net
\* total, detect_rimborso answers an empty list of candidates and no error, in
\* every state reached from the schema of init_db.  Violated: init_db creates
\* no table rimborso_mittenti and the first query of detect_rimborso raises.
C12_EmptyNeverError ==
    (Detected /\ (NoActiveSender \/ NoUnpaidMonth))
        => resp.code = 200 /\ resp.candidates = <<>>

\* ------------------------------------------------------------------ C13

\* A statement around the turn of the year: November 30th, December 1st and
\* 31st 2023, January 1st 2024
BulkFile ==
    << Row(DataCell("d/m/Y", 2023, 11, 30), TextCell(<<"c">>), BlankCell, NumCell(-1000)),
       Row(DataCell("d/m/Y", 2023, 12, 1), TextCell(<<"c">>), BlankCell, NumCell(-2000)),
       Row(DataCell("d/m/Y", 2023, 12, 31), TextCell(<<"c">>), BlankCell, NumCell(-3000)),
       Row(DataCell("d/m/Y", 2024, 1, 1), TextCell(<<"c">>), BlankCell, NumCell(-4000)) >>

\* A manual entry of January 5th 2024, the date written without zero padding
BulkBodies == { Body(Unpadded(2024, 1, 5), <<"c">>, <<>>, NumCell(-5000)) }

BulkMonths ==
    { [month |-> 12, year |-> 2023], [month |-> 1, year |-> 2024],
      [month |-> 9, year |-> 2024] }

\* Requests of one period, and of December and January together
BulkPeriods == {<<p>> : p \in BulkMonths}
                   \cup {<<[month |-> 12, year |-> 2023], [month |-> 1, year |-> 2024]>>}

\* The ledger is filled, months are marked, and periods are deleted
NextBulk ==
    \/ ProcessExcel(BulkFile)
    \/ \E b \in BulkBodies : CreateExpense(b)
    \/ \E p \in BulkMonths : SetMonthlyStatus(p.month, p.year, TRUE)
    \/ \E ps \in BulkPeriods : BulkDeleteExpenses(ps)

SpecBulk == Init /\ [][NextBulk]_vars

\* The (year, month) pairs of a request of bulk_delete_expenses
PeriodsOf(periods) == {<<periods[i].year, periods[i].month>> : i \in 1..Len(periods)}

\* C13: bulk_delete_expenses removes exactly the expenses whose value date is
\* a day of one of the requested months (from the 1st to before the 1st of
\* the next month, December running into January of the next year), removes
\* the status rows of these months, and leaves every other expense and every
\* other status row as it was.  Violated: the dates are compared as text.
C13_BulkDeleteExact ==
    [][(resp'.op = "bulk" /\ resp'.code = 200)
        => LET P == PeriodsOf(resp'.periods)
           IN  /\ expenses' = {e \in expenses : <<e.data.y, e.data.m>> \notin P}
               /\ monthly' = {s \in monthly : <<s.year, s.month>> \notin P}]_vars

\* ---------------------------------------------------------- C14 .. C18

\* A statement of two rows: the text of the keyword in capitals after a
\* blank, and a text that contains the keyword
NeutralFile ==
    << Row(DataCell("d/m/Y", 2024, 5, 2), TextCell(<<" ", "A", "B">>), BlankCell,
           NumCell(-1000)),
       Row(DataCell("d/m/Y", 2024, 5, 3), TextCell(<<"a", "b", "c">>), BlankCell,
           NumCell(-2000)) >>

\* Manual entries and edits: the text of the keyword, and a text containing it
NeutralBodies ==
    { Body(Fmt(2024, 5, 4), <<"a", "b">>, <<>>, NumCell(-3000)),
      Body(Fmt(2024, 5, 4), <<"c", "a", "b">>, <<>>, NumCell(-3000)) }

\* Keywords and sender patterns as they are sent: one text in two cases
NeutralTexts == { <<"a", "b">>, <<"A", "B", " ">> }

NeutralKwIds == 1..2
NeutralSenderIds == 1..2
NeutralExpenseIds == {3}

\* Keywords and senders are added and deleted while expenses are uploaded,
\* entered and edited
NextNeutral ==
    \/ ProcessExcel(NeutralFile)
    \/ \E b \in NeutralBodies : CreateExpense(b)
    \/ \E i \in NeutralExpenseIds, b \in NeutralBodies : UpdateExpense(i, b)
    \/ \E raw \in NeutralTexts : AddKeyword(raw)
    \/ \E i \in NeutralKwIds : DeleteKeyword(i)
    \/ \E unique \in BOOLEAN : CreateMittentiTable(unique)
    \/ \E raw \in NeutralTexts : AddRimborsoMittente(raw, 5000, TRUE)
    \/ \E i \in NeutralSenderIds : DeleteRimborsoMittente(i)

SpecNeutral == Init /\ [][NextNeutral]_vars

\* The trimmed, lower-cased texts of a set of keywords
KeywordTexts(kws) == {LowerTrim(k.keyword) : k \in kws}

\* The flag of an expense is true exactly when its trimmed, lower-cased
\* description is the text of a keyword
FlagRight(e, kws) == e.neutral = (LowerTrim(e.op) \in KeywordTexts(kws))

\* C14: every expense persisted by process_excel, create_expense or
\* update_expense is neutral exactly when its trimmed, lower-cased description
\* equals the trimmed, lower-cased text of a keyword the call has read; a
\* description that only contains a keyword is not flagged.
C14_NeutralExactMatch ==
    [][/\ (resp'.op \in {"create", "update"} /\ resp'.code = 200)
            => /\ resp'.row \in expenses'
               /\ FlagRight(resp'.row, keywords)
       /\ resp'.op = "upload"
            => \A e \in expenses' \ expenses : FlagRight(e, keywords)]_vars

\* An upload has stored the row " AB" as neutral and the row "abc", which
\* contains the keyword, as not neutral
C14_Witness ==
    /\ resp.op = "upload"
    /\ resp.stats.new = 2
    /\ \E k \in keywords :
        /\ \E e \in expenses : LowerTrim(e.op) = Lower(k.keyword) /\ e.neutral
        /\ \E e \in expenses :
              /\ LowerTrim(e.op) # Lower(k.keyword)
              /\ Contains(LowerTrim(e.op), Lower(k.keyword))
              /\ ~e.neutral

\* C15: no two stored keywords are equal when lower-cased, and add_keyword of
\* a text that differs only in letter case from a stored keyword is refused
\* as a conflict.  Violated: the UNIQUE constraint of neutral_keywords
\* compares the texts as they are.
C15_KeywordsUniqueNoCase ==
    [][/\ \A k1 \in keywords' : \A k2 \in keywords' :
              Lower(k1.keyword) = Lower(k2.keyword) => k1 = k2
       /\ \A raw \in NeutralTexts :
              (/\ AddKeyword(raw)
               /\ \E k \in keywords : Lower(k.keyword) = Lower(Strip(raw)))
                  => resp'.code = 409 /\ keywords' = keywords]_vars

\* C16: every sender is linked to exactly one existing keyword whose text is
\* the sender's pattern, and no keyword is linked to two senders.  Violated.
C16_SenderKeywordOneToOne ==
    /\ \A m \in mittenti :
          /\ Cardinality({k \in keywords : k.id = m.keyword_id}) = 1
          /\ \A k \in keywords : k.id = m.keyword_id => k.keyword = m.operazione
    /\ \A m1 \in mittenti : \A m2 \in mittenti :
          m1.keyword_id = m2.keyword_id => m1 = m2

\* C17: delete_keyword removes the keyword, and every expense whose trimmed,
\* lower-cased description equals it becomes not neutral, unless another
\* remaining keyword matches the description, and then the expense keeps its
\* flag.  Violated.
C17_DeleteKeywordUnflags ==
    [][\A k \in keywords :
          DeleteKeyword(k.id)
              => /\ keywords' = keywords \ {k}
                 /\ expenses' =
                      {IF /\ LowerTrim(e.op) = LowerTrim(k.keyword)
                          /\ LowerTrim(e.op) \notin KeywordTexts(keywords \ {k})
                          THEN [e EXCEPT !.neutral = FALSE] ELSE e
                       : e \in expenses}]_vars

\* C18: delete_rimborso_mittente of an existing sender removes the sender and
\* its linked keyword and makes every expense whose trimmed, lower-cased
\* description equals the (lower-cased) pattern of the sender not neutral; for
\* an id of no sender it answers not-found and changes nothing.  Violated.
C18_DeleteSenderUnflags ==
    [][\A mid \in NeutralSenderIds :
          DeleteRimborsoMittente(mid)
              => IF \E m \in mittenti : m.id = mid
                     THEN LET m == CHOOSE x \in mittenti : x.id = mid
                          IN  /\ mittenti' = mittenti \ {m}
                              /\ keywords' = {k \in keywords : k.id # m.keyword_id}
                              /\ expenses' =
                                   {IF LowerTrim(e.op) = LowerTrim(m.operazione)
                                       THEN [e EXCEPT !.neutral = FALSE] ELSE e
                                    : e \in expenses}
                     ELSE /\ resp'.code = 404
                          /\ UNCHANGED <<expenses, keywords, mittenti>>]_vars

\* ------------------------------------------------------------------ C19

\* C19: a call of create_expense whose fingerprint is that of a row of the
\* ledger, and a call of update_expense whose new fingerprint is that of
\* another row, answer a conflict (409) and leave the ledger as it was; a call
\* of update_expense whose new fingerprint is the row's own succeeds and the
\* row carries the values sent.  (A call is taken whole, from its check to
\* its write.)
C19_CollisionIsConflict ==
    [][/\ \A b \in LedgerBodies :
            (/\ CreateExpense(b)
             /\ BodyValid(b)
             /\ \E e \in expenses : e.hash = BodyHash(b))
                => resp' = Reply("create", 409) /\ expenses' = expenses
       /\ \A i \in LedgerIds : \A b \in LedgerBodies :
            (/\ UpdateExpense(i, b)
             /\ BodyValid(b)
             /\ \E e \in expenses : e.id = i)
                => IF \E e \in expenses : e.id # i /\ e.hash = BodyHash(b)
                       THEN resp' = Reply("update", 409) /\ expenses' = expenses
                       ELSE (\E e \in expenses : e.id = i /\ e.hash = BodyHash(b))
                               => /\ resp'.code = 200
                                  /\ \E e \in expenses' :
                                        /\ e.id = i
                                        /\ e.hash = BodyHash(b)
                                        /\ e.op = Strip(b.op)
                                        /\ e.imp = parse_importo(b.imp)
                                  /\ Cardinality(expenses') = Cardinality(expenses)]_vars

\* An edit has been refused as a conflict: the ledger holds another row of
\* the fingerprint sent
C19_Witness ==
    /\ resp = Reply("update", 409)
    /\ \E b \in LedgerBodies : \E e \in expenses : e.hash = BodyHash(b)
    /\ Cardinality(expenses) >= 2

\* ------------------------------------------------------------------ C20

\* Amount texts: the digits 1 to 4, the dot and the comma, up to MaxAmountLen
\* characters; and amounts that are numbers
AmountChars == {"1", "2", "3", "4", ".", ","}
AmountTexts == UNION {[1..n -> AmountChars] : n \in 0..MaxAmountLen}
\* The texts "1.200,50", "10,3" and "-45,00"
AmountExamples ==
    { <<"1", ".", "2", "0", "0", ",", "5", "0">>,
      <<"1", "0", ",", "3">>,
      <<"-", "4", "5", ",", "0", "0">> }
AmountValues ==
    {TextCell(s) : s \in AmountTexts \cup AmountExamples}
        \cup {NumCell(10300), NumCell(-45000)}

\* An amount is at hand, beside the database of init_db, and parse_importo
\* is called on it
InitParse ==
    /\ expenses = {}
    /\ nextId = 1
    /\ keywords = {}
    /\ nextKwId = 1
    /\ hasMittenti = "no"
    /\ mittenti = {}
    /\ nextMitId = 1
    /\ monthly = {}
    /\ pending = {}
    /\ resp \in {[op |-> "amount", value |-> v] : v \in AmountValues}

NextParse == ParseImporto

SpecParse == InitParse /\ [][NextParse]_vars

\* C20: parse_importo of the text "1.234", a dot and no comma, takes the dot
\* for a thousands separator and returns 1234.  Violated: a text with a dot
\* and no comma is handed to float() as it is, which returns 1.234.
C20_DotOnlyIsThousands ==
    (resp.op = "parse" /\ resp.value = TextCell(<<"1", ".", "2", "3", "4">>))
        => resp.result = 1234000

\* ------------------------------------------------------------------ C21

\* The digits of a text, in order
DigitsOf(s) == SelectSeq(s, LAMBDA c : c \in Digits)

\* An amount text written with a decimal comma: an optional minus sign, then
\* digits, dots and exactly one comma, with a digit somewhere
CommaAmount(s) ==
    LET body == IF s # <<>> /\ Head(s) = "-" THEN Tail(s) ELSE s
    IN  /\ \A i \in 1..Len(body) : body[i] \in Digits \cup {".", ","}
        /\ Cardinality({i \in 1..Len(body) : body[i] = ","}) = 1
        /\ DigitsOf(body) # <<>>

\* What such a text says, in thousandths: the digits before the comma are the
\* whole part, the dots between them dropped, and the digits after it the
\* decimals
CommaAmountValue(s) ==
    LET neg  == Head(s) = "-"
        body == IF neg THEN Tail(s) ELSE s
        p    == CHOOSE i \in 1..Len(body) : body[i] = ","
        ip   == DigitsOf(SubSeq(body, 1, p - 1))
        fp   == DigitsOf(SubSeq(body, p + 1, Len(body)))
        v    == DigitsVal(ip) * 1000 + DigitsVal(SubSeq(fp \o <<"0", "0", "0">>, 1, 3))
    IN  IF neg THEN -v ELSE v

\* C21: parse_importo of a text with a comma, with or without dots, drops the
\* dots and reads the comma as the decimal separator; a number is returned as
\* it is; so "1.200,50" gives 1200.50, "10,3" gives 10.3, "-45,00" gives
\* -45.0 and 10.3 gives 10.3.
C21_CommaIsDecimal ==
    resp.op = "parse" =>
        /\ resp.value.k = "num" => resp.result = resp.value.v
        /\ (resp.value.k = "text" /\ CommaAmount(resp.value.s))
              => resp.result = CommaAmountValue(resp.value.s)
        /\ resp.value = TextCell(<<"1", ".", "2", "0", "0", ",", "5", "0">>)
              => resp.result = 1200500
        /\ resp.value = TextCell(<<"1", "0", ",", "3">>) => resp.result = 10300
        /\ resp.value = TextCell(<<"-", "4", "5", ",", "0", "0">>)
              => resp.result = -45000
        /\ resp.value = NumCell(10300) => resp.result = 10300

\* "1.200,50" has been parsed as 1200.50
C21_Witness ==
    /\ resp.op = "parse"
    /\ resp.value = TextCell(<<"1", ".", "2", "0", "0", ",", "5", "0">>)
    /\ resp.result = 1200500

\* ------------------------------------------------------------------ C22

\* C22: in every state reached by uploads, manual entries, edits and the
\* adding and deleting of keywords and senders, an expense is neutral exactly
\* when its trimmed, lower-cased description is the lower-cased text of a
\* stored keyword.  Violated: deleting a keyword or a sender un-flags the
\* expenses of its text without reading the keywords that remain.
C22_NeutralIffKeyword ==
    \A e \in expenses :
        e.neutral = (\E k \in keywords : Lower(k.keyword) = LowerTrim(e.op))

\* ----------------------------------------------------------------- C23

\* The rows process_excel passes over without counting: a blank date, or a
\* date that parses with an empty (or 'nan') description
RowSkipped(row) == row.data.k = "blank" \/ (RowDateOk(row) /\ ~RowHasText(row))
NSkipped(file) == Cardinality({i \in 1..Len(file) : RowSkipped(file[i])})

\* C23: every call of process_excel accounts for each row of the table exactly
\* once: the number of rows is new + duplicates + errors + the rows passed
\* over in silence (blank date, or a parsed date with an empty description; a
\* row whose date is in no format is an error whatever its description), the
\* length of fuzzy_matches is at most duplicates, and the ledger keeps its
\* rows and grows by exactly new rows.
C23_RowsAccounted ==
    [][UploadStep
        => LET file  == resp'.file
               stats == resp'.stats
           IN  /\ Len(file) = stats.new + stats.duplicates + stats.errors
                              + NSkipped(file)
               /\ Len(stats.fuzzy_matches) <= stats.duplicates
               /\ expenses \subseteq expenses'
               /\ Cardinality(expenses') = Cardinality(expenses) + stats.new]_vars

\* The statement with a row of every outcome, uploaded into a ledger with none
\* of its rows: two new, an exact and a fuzzy duplicate, two errors, two rows
\* passed over
C23_Witness ==
    /\ resp.op = "upload"
    /\ resp.file = AccountFile
    /\ resp.stats.new = 2
    /\ resp.stats.duplicates = 2
    /\ Len(resp.stats.fuzzy_matches) = 1
    /\ resp.stats.errors = 2
    /\ NSkipped(resp.file) = 2

====
